---- MODULE Spec2Model ----
(***************************************************************************)
(* Model of the mountaineer reconciliation engine                          *)
(* (crates/mountaineer/src/engine.rs) and of the CLI commands of           *)
(* crates/mountaineer/src/main.rs that drive it.                           *)
(*                                                                         *)
(* Per share the model keeps the persisted ShareRuntimeState, the OS mount *)
(* table entry of the share's mount point, the node found at the stable    *)
(* path, and what the environment currently answers to probes.  Every CLI  *)
(* command is one action: load state, run the engine function, save as the *)
(* command's code does.                                                    *)
(***************************************************************************)
EXTENDS Integers, Sequences, FiniteSets, TLC

VARIABLES
    world,      \* share -> the share's part of the world (see InitialWorld)
    cfg,        \* GlobalConfig fields read by the engine
    clock,      \* wall clock, in seconds
    op,         \* the most recent command (observation only)
    events,     \* number of environment events so far
    dq,         \* argument/result record of the desired-backend functions
    pb,         \* a set_symlink_atomically in progress, step by step
    cf,         \* the config file, the alias links and the last store command
    sv,         \* a save of the state file or the config file, step by step
    mon,        \* the monitor loop of cmd_monitor and its event channel
    tray        \* the tray loop's in-progress flag and its auto-mount workers

vars == <<world, cfg, clock, op, events, dq, pb, cf, sv, mon, tray>>

\* ------------------------------------------------------------------ bounds
MaxTime == 1
MaxStableSecs == 1
MaxEnvEvents == 1

\* --------------------------------------------------------------- constants
Shares == {"core"}

Tb == "tb"
Fallback == "fallback"
Backends == {Tb, Fallback}
NoBackend == "none"
OptBackend == Backends \cup {NoBackend}

NoTime == -1
NoError == "none"

\* what may be found at a share's stable path: nothing, a regular file, a
\* directory, a symlink to the share's mount point, a symlink elsewhere
NonLinks == {"file", "dir"}

LinkKinds == {"absent", "dir", "to_mount", "to_other"}

\* config.rs: Option<Backend> helpers
Other(b) == IF b = Tb THEN Fallback ELSE Tb

OrElse(a, b) == IF a # NoBackend THEN a ELSE b

Min(a, b) == IF a <= b THEN a ELSE b

\* ShareRuntimeState::default()
DefaultShareRuntimeState ==
    [active_backend |-> NoBackend,
     last_switch_at |-> NoTime,
     tb_reachable_since |-> NoTime,
     tb_healthy_since |-> NoTime,
     last_error |-> NoError,
     tb_recovery_pending |-> FALSE]

\* config.global.single_mount_mode: the only mode the design describes
single_mount_mode == TRUE

\* config::backend_mount_path: both backends use /Volumes/<share>, so the
\* mount path of a share is one path whatever the backend.
backend_mount_path(b) == "to_mount"

\* ---------------------------------------------------------------- inputs
\* What the OS answers to the driver and file system calls of one command.
\*   mnt[b]  mounts of backend b: "ok" succeed, "fail" fail, "second" the
\*           first one of the command fails and the later ones succeed
\*   um      unmounts: "ok" succeed, "fail" fail, "forced_only" only a
\*           forced unmount succeeds
MountKinds == {"ok", "fail", "second"}

UnmountKinds == {"ok", "forced_only", "fail"}

Inputs == [mnt : [Backends -> MountKinds], um : UnmountKinds]

\* the inputs of a command that mounts each backend at most once
OnceInputs == {i \in Inputs : \A b \in Backends : i.mnt[b] # "second"}

\* the inputs of a command that only unmounts
UnmountInputs == {i \in OnceInputs : \A b \in Backends : i.mnt[b] = "ok"}

\* the result of the next mount of backend b in world w, given the calls
\* issued so far: a host that does not answer cannot be mounted
MountOk(w, b, inp) ==
    /\ w.reach[b]
    /\ \/ inp.mnt[b] = "ok"
       \/ inp.mnt[b] = "second" /\ \E i \in 1..Len(w.calls) : w.calls[i] = "mount_" \o b

GracefulOk(inp) == inp.um = "ok"

ForcedOk(inp) == inp.um # "fail"

\* ----------------------------------------------------------------- world
\* The part of the world one share's processing reads and writes:
\*   rt       the share's entry of the persisted RuntimeState
\*   mounted  the backends with a mount at the share's mount point
\*   alive    the mount at the mount point answers a stat
\*   open     lsof reports open handles under the mount point
\*   reach    backend -> the host accepts a connection on port 445
\*   link     the node found at the stable path <shares_root>/<name>
\* and, as observations of the most recent command:
\*   calls    the driver / linker calls it issued, in order
\*   dual     it issued a mount while the other backend was mounted
\*   sw       the switch it ran and the SwitchResult
NoSwitch == [from |-> NoBackend, to |-> NoBackend, res |-> "none"]

InitialWorld(r) ==
    [rt |-> DefaultShareRuntimeState, mounted |-> {}, alive |-> TRUE, open |-> FALSE,
     reach |-> r, link |-> "absent", calls |-> <<>>, dual |-> FALSE, sw |-> NoSwitch]

\* the world as a command finds it
Start(w) == [w EXCEPT !.calls = <<>>, !.dual = FALSE, !.sw = NoSwitch]

\* mount::smb::is_mounted
is_mounted(w) == w.mounted # {}

\* mount::smb::is_mount_alive
is_mount_alive(w) == w.mounted # {} /\ w.alive

\* has_open_handles
has_open_handles(w) == w.mounted # {} /\ w.open

\* mount::smb::mount_share (MountDriver.mount): on success backend b is
\* mounted at the mount point and answers.
mount_share(w, b, ok) ==
    [w EXCEPT !.mounted = IF ok THEN @ \cup {b} ELSE @,
              !.alive = IF ok THEN TRUE ELSE @,
              !.calls = Append(@, "mount_" \o b),
              !.dual = @ \/ (w.mounted \ {b} # {})]

\* mount::smb::unmount (forced) : on success nothing is mounted there
unmount(w, ok) ==
    [w EXCEPT !.mounted = IF ok THEN {} ELSE @,
              !.alive = IF ok THEN TRUE ELSE @,
              !.open = IF ok THEN FALSE ELSE @,
              !.calls = Append(@, "unmount")]

\* mount::smb::unmount_graceful (MountDriver.unmount, force = false)
unmount_graceful(w, ok) ==
    [w EXCEPT !.mounted = IF ok THEN {} ELSE @,
              !.alive = IF ok THEN TRUE ELSE @,
              !.open = IF ok THEN FALSE ELSE @,
              !.calls = Append(@, "unmount_graceful")]

\* Path::exists on the link path: follows a symlink
path_exists(w) ==
    \/ w.link \in NonLinks \cup {"to_other"}
    \/ w.link = "to_mount" /\ w.mounted # {}

\* is_symlink / symlink_metadata().is_symlink()
is_symlink(w) == w.link \in {"to_mount", "to_other"}

\* a set_symlink_atomically without the check for a non-symlink node
set_symlink_overwriting(w, target) ==
    <<TRUE, [w EXCEPT !.calls = Append(@, "publish"), !.link = target]>>

\* set_symlink_atomically: returns <<ok, world>>.  A node that exists and
\* is no symlink is an error; an existing symlink is removed; the new link
\* is then renamed into place.
set_symlink_atomically(w, target) ==
    IF path_exists(w) /\ ~is_symlink(w)
    THEN <<FALSE, [w EXCEPT !.calls = Append(@, "publish")]>>
    ELSE <<TRUE, [w EXCEPT !.calls = Append(@, "publish"), !.link = target]>>

\* detect_active_backend: the stable symlink's target compared with the
\* mount path of Tb first, then with the mount path of Fallback
detect_active_backend(w) ==
    IF ~is_symlink(w) THEN NoBackend
    ELSE IF w.link = backend_mount_path(Tb) THEN Tb
    ELSE IF w.link = backend_mount_path(Fallback) THEN Fallback
    ELSE NoBackend

\* current_active_backend
current_active_backend(w) == OrElse(detect_active_backend(w), w.rt.active_backend)

\* ------------------------------------------------------- desired backend
\* (now - since).num_seconds().max(0) as u64
stable_for(now, since) == IF now - since >= 0 THEN now - since ELSE 0

\* choose_desired_backend (dual-mount mode; arguments are readiness bits)
choose_desired_backend(active, tb_ready, fb_ready, auto_failback, tb_stability_since, failback_stable_secs, now) ==
    IF active = Tb THEN
        IF tb_ready THEN Tb ELSE Fallback
    ELSE IF active = Fallback THEN
        IF ~fb_ready THEN
            IF tb_ready THEN Tb ELSE Fallback
        ELSE IF /\ tb_ready /\ auto_failback
                /\ tb_stability_since # NoTime
                /\ stable_for(now, tb_stability_since) >= failback_stable_secs
             THEN Tb
        ELSE Fallback
    ELSE
        IF tb_ready THEN Tb
        ELSE IF fb_ready THEN Fallback
        ELSE NoBackend

\* a choose_desired_backend_single_mount that fails back as soon as Tb is
\* reachable, whatever auto_failback and the stability window say
choose_desired_backend_eager_failback(active, tb_reachable, fb_reachable, auto_failback, tb_stability_since, failback_stable_secs, now) ==
    IF active = Tb THEN
        IF tb_reachable THEN Tb ELSE Fallback
    ELSE IF active = Fallback THEN
        IF tb_reachable THEN Tb ELSE Fallback
    ELSE
        IF tb_reachable THEN Tb
        ELSE IF fb_reachable THEN Fallback
        ELSE NoBackend

\* choose_desired_backend_single_mount (arguments are reachability bits)
choose_desired_backend_single_mount(active, tb_reachable, fb_reachable, auto_failback, tb_stability_since, failback_stable_secs, now) ==
    IF active = Tb THEN
        IF tb_reachable THEN Tb ELSE Fallback
    ELSE IF active = Fallback THEN
        IF ~fb_reachable THEN
            IF tb_reachable THEN Tb ELSE Fallback
        ELSE IF /\ tb_reachable /\ auto_failback
                /\ tb_stability_since # NoTime
                /\ stable_for(now, tb_stability_since) >= failback_stable_secs
             THEN Tb
        ELSE Fallback
    ELSE
        IF tb_reachable THEN Tb
        ELSE IF fb_reachable THEN Fallback
        ELSE NoBackend

\* ------------------------------------------------------------------ probe
\* probe_backend, the end: the last liveness check and the BackendProbe.
\* Returns [w, status].
probe_status(w, backend, mounted, alive, err) ==
    LET alive2 == IF mounted /\ ~alive THEN is_mount_alive(w) ELSE alive
    IN [w |-> w,
        status |-> [reachable |-> w.reach[backend], mounted |-> mounted, alive |-> alive2,
                    ready |-> w.reach[backend] /\ mounted /\ alive2, last_error |-> err]]

\* probe_backend, after the mount attempt: w is the world the mount left,
\* p the probe before it
probe_mounted(w, p, backend, mount_ok) ==
    IF mount_ok
    THEN probe_status(w, backend, is_mounted(w), is_mounted(w) /\ is_mount_alive(w), p.err)
    ELSE probe_status(w, backend, p.mounted, p.alive, "probe_mount_failed")

\* a mount attempt that does not look at attempt_mount
probe_mount_unasked(p, backend, attempt_mount, active_backend, single_mount, inp) ==
    IF p.w.reach[backend] /\ ~p.mounted
    THEN probe_mounted(mount_share(p.w, backend, MountOk(p.w, backend, inp)), p, backend,
                       MountOk(p.w, backend, inp))
    ELSE probe_status(p.w, backend, p.mounted, p.alive, p.err)

\* probe_backend, the mount attempt: in single-mount mode only for the active
\* backend, or for any backend when none is active
probe_mount(p, backend, attempt_mount, active_backend, single_mount, inp) ==
    LET should_mount == IF single_mount
                        THEN attempt_mount /\ (active_backend = NoBackend \/ active_backend = backend)
                        ELSE attempt_mount
    IN IF should_mount /\ p.w.reach[backend] /\ ~p.mounted
       THEN probe_mounted(mount_share(p.w, backend, MountOk(p.w, backend, inp)), p, backend,
                          MountOk(p.w, backend, inp))
       ELSE probe_status(p.w, backend, p.mounted, p.alive, p.err)

\* a removal that also takes the mount of an unreachable backend for stale
probe_stale_unreachable(w, backend, active_backend, inp) ==
    LET graceful == active_backend = backend
        unmount_ok == IF graceful THEN GracefulOk(inp) ELSE ForcedOk(inp)
    IN IF is_mounted(w) /\ (~is_mount_alive(w) \/ ~w.reach[backend])
       THEN [w |-> IF graceful THEN unmount_graceful(w, GracefulOk(inp))
                   ELSE unmount(w, ForcedOk(inp)),
             mounted |-> ~unmount_ok,
             alive |-> FALSE,
             err |-> IF unmount_ok THEN NoError
                     ELSE IF graceful THEN "stale_active_not_unmounted"
                     ELSE "stale_cleanup_failed"]
       ELSE [w |-> w, mounted |-> is_mounted(w),
             alive |-> is_mounted(w) /\ is_mount_alive(w), err |-> NoError]

\* probe_backend, the removal of a stale mount: returns [w, mounted, alive, err]
probe_stale(w, backend, active_backend, inp) ==
    LET graceful == active_backend = backend
        unmount_ok == IF graceful THEN GracefulOk(inp) ELSE ForcedOk(inp)
    IN IF is_mounted(w) /\ ~is_mount_alive(w)
       THEN [w |-> IF graceful THEN unmount_graceful(w, GracefulOk(inp))
                   ELSE unmount(w, ForcedOk(inp)),
             mounted |-> ~unmount_ok,
             alive |-> FALSE,
             err |-> IF unmount_ok THEN NoError
                     ELSE IF graceful THEN "stale_active_not_unmounted"
                     ELSE "stale_cleanup_failed"]
       ELSE [w |-> w, mounted |-> is_mounted(w),
             alive |-> is_mounted(w) /\ is_mount_alive(w), err |-> NoError]

\* probe_backend: returns [w, status]
probe_backend(w, backend, attempt_mount, active_backend, single_mount, inp) ==
    probe_mount(probe_stale(w, backend, active_backend, inp), backend, attempt_mount,
                active_backend, single_mount, inp)

\* a readiness test that takes every backend for ready
backend_ready_always(desired, tb, fb) == TRUE

\* backend_ready
backend_ready(desired, tb, fb) == IF desired = Tb THEN tb.ready ELSE fb.ready

\* ----------------------------------------------------------------- switch
\* switch_backend_single_mount returns [w, res]; res is the SwitchResult,
\* "MountFailed_rb" standing for MountFailed{rolled_back: true} and
\* "MountFailed_norb" for MountFailed{rolled_back: false}.

\* step 4 and the state update, in the world w the mount of `to` left
switch_success(w, to, now) ==
    [w |-> [w EXCEPT !.rt.active_backend = to,
                     !.rt.last_switch_at = now,
                     !.rt.tb_recovery_pending = FALSE,
                     !.rt.last_error = NoError],
     res |-> "Success"]

\* step 5, in the world w the remount of `from` left
switch_rollback(w, rolled_back, from) ==
    [w |-> IF rolled_back THEN set_symlink_atomically(w, backend_mount_path(from))[2] ELSE w,
     res |-> IF rolled_back THEN "MountFailed_rb" ELSE "MountFailed_norb"]

\* a match on mount_result that commits only if the symlink was published
switch_mounted_if_published(w, mount_ok, from, to, now, inp) ==
    IF mount_ok
    THEN IF path_exists(w) /\ ~is_symlink(w)
         THEN [w |-> set_symlink_atomically(w, backend_mount_path(to))[2], res |-> "MountFailed_norb"]
         ELSE switch_success(set_symlink_atomically(w, backend_mount_path(to))[2], to, now)
    ELSE switch_rollback(mount_share(w, from, MountOk(w, from, inp)), MountOk(w, from, inp), from)

\* the match on mount_result, in the world w the mount of `to` left
switch_mounted(w, mount_ok, from, to, now, inp) ==
    IF mount_ok
    THEN switch_success(set_symlink_atomically(w, backend_mount_path(to))[2], to, now)
    ELSE switch_rollback(mount_share(w, from, MountOk(w, from, inp)), MountOk(w, from, inp), from)

\* step 3: mount the new backend
switch_mount(w, from, to, now, inp) ==
    switch_mounted(mount_share(w, to, MountOk(w, to, inp)), MountOk(w, to, inp), from, to, now, inp)

\* the end of step 2, in the world w the unmount left
switch_unmounted(w, unmount_ok, from, to, now, inp) ==
    IF ~unmount_ok THEN [w |-> w, res |-> "UnmountFailed"]
    ELSE switch_mount(w, from, to, now, inp)

\* steps 2 to 5: unmount, mount, publish, rollback
switch_steps(w, from, to, force, now, inp) ==
    IF ~is_mounted(w) THEN switch_mount(w, from, to, now, inp)
    ELSE IF force THEN switch_unmounted(unmount(w, ForcedOk(inp)), ForcedOk(inp), from, to, now, inp)
    ELSE switch_unmounted(unmount_graceful(w, GracefulOk(inp)), GracefulOk(inp), from, to, now, inp)

\* a switch that skips step 1, the check for open files
switch_without_busy_check(w, from, to, force, now, inp) ==
    switch_steps(w, from, to, force, now, inp)

\* switch_backend_single_mount
switch_backend_single_mount(w, from, to, force, now, inp) ==
    IF ~force /\ is_mounted(w) /\ has_open_handles(w)
    THEN [w |-> w, res |-> "BusyOpenFiles"]
    ELSE switch_steps(w, from, to, force, now, inp)

\* -------------------------------------------------------------- reconcile
\* an update that restamps tb_reachable_since on every reachable probe
update_windows_restamp(rt, tb, now) ==
    [rt EXCEPT
        !.tb_reachable_since = IF tb.reachable THEN now ELSE NoTime,
        !.tb_recovery_pending = IF tb.reachable THEN @ ELSE FALSE,
        !.tb_healthy_since = IF tb.ready THEN (IF @ = NoTime THEN now ELSE @) ELSE NoTime]

\* reconcile_share, the update of the stability windows
update_windows(rt, tb, now) ==
    [rt EXCEPT
        !.tb_reachable_since = IF tb.reachable THEN (IF @ = NoTime THEN now ELSE @) ELSE NoTime,
        !.tb_recovery_pending = IF tb.reachable THEN @ ELSE FALSE,
        !.tb_healthy_since = IF tb.ready THEN (IF @ = NoTime THEN now ELSE @) ELSE NoTime]

\* reconcile_share, tb_stability_since
stability_since(rt) ==
    IF rt.tb_reachable_since # NoTime /\ rt.tb_healthy_since # NoTime
        THEN Min(rt.tb_reachable_since, rt.tb_healthy_since)
    ELSE IF rt.tb_reachable_since # NoTime THEN rt.tb_reachable_since
    ELSE rt.tb_healthy_since

\* The act step returns [w, sw, err]: the world, the switch that was run and
\* the error the cycle reports.

\* the match on the result r of the failover switch
failover_result(r, active, other) ==
    LET err == CASE r.res = "Success" -> NoError
                 [] r.res = "BusyOpenFiles" -> "failover_blocked_open_files"
                 [] r.res = "UnmountFailed" -> "failover_unmount_failed"
                 [] OTHER -> "failover_mount_failed"
    IN [w |-> IF err = NoError THEN r.w ELSE [r.w EXCEPT !.rt.last_error = err],
        sw |-> [from |-> active, to |-> other, res |-> r.res],
        err |-> err]

\* the match on the result r of the automatic failback switch
failback_result(r) ==
    LET err == CASE r.res = "UnmountFailed" -> "auto_failback_unmount_failed"
                 [] r.res \in {"MountFailed_rb", "MountFailed_norb"}
                        -> "auto_failback_mount_failed"
                 [] OTHER -> NoError
    IN [w |-> CASE r.res = "BusyOpenFiles" -> [r.w EXCEPT !.rt.tb_recovery_pending = TRUE]
                [] err # NoError -> [r.w EXCEPT !.rt.last_error = err]
                [] OTHER -> r.w,
        sw |-> [from |-> Fallback, to |-> Tb, res |-> r.res],
        err |-> err]

\* an initial mount that records the backend without publishing the symlink
initial_mounted_unpublished(w, mount_ok, desired, now) ==
    IF mount_ok
    THEN [w |-> [w EXCEPT !.rt.active_backend = desired, !.rt.last_switch_at = now],
          sw |-> w.sw, err |-> NoError]
    ELSE [w |-> [w EXCEPT !.rt.last_error = "initial_mount_failed"],
          sw |-> w.sw, err |-> "initial_mount_failed"]

\* the match on the result of the initial mount, in the world w it left
initial_mounted(w, mount_ok, desired, now) ==
    IF mount_ok
    THEN [w |-> [set_symlink_atomically(w, backend_mount_path(desired))[2]
                    EXCEPT !.rt.active_backend = desired, !.rt.last_switch_at = now],
          sw |-> w.sw, err |-> NoError]
    ELSE [w |-> [w EXCEPT !.rt.last_error = "initial_mount_failed"],
          sw |-> w.sw, err |-> "initial_mount_failed"]

\* reconcile_share, the act step of single-mount mode
act_single_mount(w, active_backend, desired_backend, tb, fb, tb_stability_since, c, now, inp) ==
    IF active_backend # NoBackend THEN
        LET active == active_backend
            other == Other(active)
            other_reachable == IF other = Tb THEN tb.reachable ELSE fb.reachable
        IN
        IF ~backend_ready(active, tb, fb) THEN
            IF other_reachable
            THEN failover_result(switch_backend_single_mount(w, active, other, FALSE, now, inp),
                                 active, other)
            ELSE [w |-> w, sw |-> w.sw, err |-> NoError]
        ELSE IF active = Fallback /\ tb.reachable THEN
            IF ~c.auto_failback THEN
                [w |-> [w EXCEPT !.rt.tb_recovery_pending = TRUE],
                 sw |-> w.sw, err |-> NoError]
            ELSE IF /\ tb_stability_since # NoTime
                    /\ stable_for(now, tb_stability_since) >= c.auto_failback_stable_secs
            THEN failback_result(switch_backend_single_mount(w, Fallback, Tb, FALSE, now, inp))
            ELSE [w |-> w, sw |-> w.sw, err |-> NoError]
        ELSE IF active = Tb THEN
            [w |-> [w EXCEPT !.rt.tb_recovery_pending = FALSE],
             sw |-> w.sw, err |-> NoError]
        ELSE [w |-> w, sw |-> w.sw, err |-> NoError]
    ELSE IF desired_backend # NoBackend THEN
        initial_mounted(mount_share(w, desired_backend, MountOk(w, desired_backend, inp)),
                        MountOk(w, desired_backend, inp), desired_backend, now)
    ELSE [w |-> w, sw |-> w.sw, err |-> NoError]

\* reconcile_share, the end: the ShareStatus.  a is the result of the act step.
reconcile_end(a, active_backend, desired_backend, tb, fb) ==
    LET last_error == IF a.err # NoError THEN a.err
                      ELSE IF tb.last_error # NoError THEN tb.last_error
                      ELSE fb.last_error
    IN [w |-> [a.w EXCEPT !.sw = a.sw],
        status |-> [active_backend |-> OrElse(a.w.rt.active_backend, active_backend),
                    desired_backend |-> desired_backend,
                    tb |-> tb,
                    fallback |-> fb,
                    last_switch_at |-> a.w.rt.last_switch_at,
                    last_error |-> IF last_error # NoError THEN last_error
                                   ELSE a.w.rt.last_error]]

\* reconcile_share, from the choice of the desired backend on: w is the
\* world with the stability windows updated, tb and fb the probes' statuses
reconcile_act(w, tb, fb, detected_active, c, auto_switch, now, inp) ==
    LET active_backend == OrElse(detected_active, w.rt.active_backend)
        tb_stability_since == stability_since(w.rt)
        desired_backend ==
            IF single_mount_mode
            THEN choose_desired_backend_single_mount(active_backend, tb.reachable,
                     fb.reachable, c.auto_failback, tb_stability_since,
                     c.auto_failback_stable_secs, now)
            ELSE choose_desired_backend(active_backend, tb.ready, fb.ready,
                     c.auto_failback, tb_stability_since,
                     c.auto_failback_stable_secs, now)
    IN reconcile_end(
           IF single_mount_mode /\ auto_switch
           THEN act_single_mount(w, active_backend, desired_backend, tb, fb,
                                 tb_stability_since, c, now, inp)
           ELSE [w |-> [w EXCEPT !.rt.active_backend = active_backend],
                 sw |-> w.sw, err |-> NoError],
           active_backend, desired_backend, tb, fb)

\* reconcile_share, after the probe of Fallback: pfb is its result
reconcile_probed(pfb, tb, detected_active, c, auto_switch, now, inp) ==
    reconcile_act([pfb.w EXCEPT !.rt = update_windows(@, tb, now)], tb, pfb.status,
                  detected_active, c, auto_switch, now, inp)

\* reconcile_share, after the probe of Tb: ptb is its result
reconcile_probe_fb(ptb, detected_active, active_hint, c, attempt_mount, auto_switch, now, inp) ==
    reconcile_probed(
        probe_backend(ptb.w, Fallback, attempt_mount, active_hint, single_mount_mode, inp),
        ptb.status, detected_active, c, auto_switch, now, inp)

\* reconcile_share: returns [w, status]
reconcile_share(w, c, attempt_mount, auto_switch, now, inp) ==
    LET detected_active == detect_active_backend(w)
        remembered_active == w.rt.active_backend
        active_hint == OrElse(detected_active, remembered_active)
    IN reconcile_probe_fb(
           probe_backend(w, Tb, attempt_mount, active_hint, single_mount_mode, inp),
           detected_active, active_hint, c, attempt_mount, auto_switch, now, inp)

\* unmount_all, one backend of one share
unmount_backend(w, backend, active_backend, inp) ==
    IF ~is_mounted(w) THEN w
    ELSE IF has_open_handles(w) THEN w
    ELSE IF active_backend = backend THEN unmount_graceful(w, GracefulOk(inp))
    ELSE unmount(w, ForcedOk(inp))

\* unmount_all, the end of the loop body: the symlink and the state entry
unmount_finish(w) ==
    [w EXCEPT !.link = IF is_symlink(w) THEN "absent" ELSE @,
              !.rt.active_backend = NoBackend,
              !.rt.last_error = NoError]

\* unmount_all, the body of the loop over the shares: returns the world
unmount_share(w, inp) ==
    unmount_finish(
        unmount_backend(
            unmount_backend(w, Tb, current_active_backend(w), inp),
            Fallback, current_active_backend(w), inp))

\* ---------------------------------------------------------------- actions
\* cmd_reconcile and one cycle of cmd_monitor: reconcile_all, then save
CmdReconcile ==
    /\ \E inp \in [Shares -> Inputs] :
          world' = [s \in Shares |->
                      reconcile_share(Start(world[s]), cfg, TRUE, TRUE, clock, inp[s]).w]
    /\ op' = "reconcile"
    /\ UNCHANGED <<cfg, clock, events, dq, pb, cf, sv, mon, tray>>

\* cmd_status: verify_all, then save
CmdStatus ==
    /\ \E inp \in [Shares -> UnmountInputs] :
          world' = [s \in Shares |->
                      reconcile_share(Start(world[s]), cfg, FALSE, FALSE, clock, inp[s]).w]
    /\ op' = "status"
    /\ UNCHANGED <<cfg, clock, events, dq, pb, cf, sv, mon, tray>>

\* cmd_mount: mount_backends_for_shares over all shares, then save
CmdMount ==
    /\ \E inp \in [Shares -> OnceInputs] :
          world' = [s \in Shares |->
                      reconcile_share(Start(world[s]), cfg, TRUE, FALSE, clock, inp[s]).w]
    /\ op' = "mount"
    /\ UNCHANGED <<cfg, clock, events, dq, pb, cf, sv, mon, tray>>

\* cmd_unmount: unmount_all, then save
CmdUnmount ==
    /\ \E inp \in [Shares -> UnmountInputs] :
          world' = [s \in Shares |-> unmount_share(Start(world[s]), inp[s])]
    /\ op' \in {"unmount", "unmount_force"}
    /\ UNCHANGED <<cfg, clock, events, dq, pb, cf, sv, mon, tray>>

\* cmd_switch, the match on the SwitchResult r; w is the world before
cmd_switch_result(r, w, from, to) ==
    [r.w EXCEPT !.rt = IF r.res \in {"Success", "MountFailed_rb"} THEN r.w.rt ELSE w.rt,
                !.sw = [from |-> from, to |-> to, res |-> r.res]]

\* cmd_switch, after the share was found and the state loaded: returns the
\* world.  The state is saved on Success and on a rolled-back MountFailed;
\* the verify_all that follows a Success only prints, its result is not saved.
cmd_switch(w, to, force, now, inp) ==
    IF w.rt.active_backend = NoBackend
    THEN [w EXCEPT !.sw = [NoSwitch EXCEPT !.res = "no_active_backend"]]
    ELSE IF w.rt.active_backend = to
    THEN [w EXCEPT !.sw = [NoSwitch EXCEPT !.res = "already_on_target"]]
    ELSE cmd_switch_result(
             switch_backend_single_mount(w, w.rt.active_backend, to, force, now, inp),
             w, w.rt.active_backend, to)

\* cmd_switch, the exit code of the process: Ok(()) is 0, an Err is 1.  w is
\* the world the command left.
cmd_switch_exit(w) == IF w.sw.res \in {"Success", "already_on_target"} THEN 0 ELSE 1

\* cmd_switch over the shares: the share named is switched, then save
CmdSwitch ==
    /\ \E x \in Shares, to \in Backends, force \in BOOLEAN :
          /\ \E inp \in IF world[x].rt.active_backend \in {NoBackend, to}
                         THEN UnmountInputs ELSE OnceInputs :
                world' = [s \in Shares |->
                            IF s = x THEN cmd_switch(Start(world[s]), to, force, clock, inp)
                            ELSE Start(world[s])]
          /\ op' = IF force THEN "switch_force" ELSE "switch"
    /\ UNCHANGED <<cfg, clock, events, dq, pb, cf, sv, mon, tray>>

\* ------------------------------------------------------------ environment
\* a host starts or stops answering on port 445
ReachChange ==
    /\ \E x \in Shares, b \in Backends :
          world' = [s \in Shares |->
                      IF s = x THEN [Start(world[s]) EXCEPT !.reach[b] = ~@]
                      ELSE Start(world[s])]
    /\ op' = "env"
    /\ UNCHANGED <<cfg, clock, dq, pb, cf, sv, mon, tray>>
    /\ events < MaxEnvEvents
    /\ events' = events + 1

\* the mount hangs, or answers again
AliveChange ==
    /\ \E x \in Shares :
          /\ world[x].mounted # {}
          /\ world' = [s \in Shares |->
                         IF s = x THEN [Start(world[s]) EXCEPT !.alive = ~@]
                         ELSE Start(world[s])]
    /\ op' = "env"
    /\ UNCHANGED <<cfg, clock, dq, pb, cf, sv, mon, tray>>
    /\ events < MaxEnvEvents
    /\ events' = events + 1

\* the host of a mounted backend goes away: it stops answering and the
\* mount hangs with it
HostLost ==
    /\ \E x \in Shares, b \in Backends :
          /\ b \in world[x].mounted /\ world[x].reach[b] /\ world[x].alive
          /\ world' = [s \in Shares |->
                         IF s = x THEN [Start(world[s]) EXCEPT !.reach[b] = FALSE, !.alive = FALSE]
                         ELSE Start(world[s])]
    /\ op' = "env"
    /\ UNCHANGED <<cfg, clock, dq, pb, cf, sv, mon, tray>>
    /\ events < MaxEnvEvents
    /\ events' = events + 1

\* a user process opens files under the mount point, or closes them
OpenChange ==
    /\ \E x \in Shares :
          /\ world[x].mounted # {}
          /\ world' = [s \in Shares |->
                         IF s = x THEN [Start(world[s]) EXCEPT !.open = ~@]
                         ELSE Start(world[s])]
    /\ op' = "env"
    /\ UNCHANGED <<cfg, clock, dq, pb, cf, sv, mon, tray>>
    /\ events < MaxEnvEvents
    /\ events' = events + 1

\* a user process replaces the node at the stable path
LinkChange ==
    /\ \E x \in Shares, k \in LinkKinds :
          /\ world[x].link # k
          /\ world' = [s \in Shares |->
                         IF s = x THEN [Start(world[s]) EXCEPT !.link = k]
                         ELSE Start(world[s])]
    /\ op' = "env"
    /\ UNCHANGED <<cfg, clock, dq, pb, cf, sv, mon, tray>>
    /\ events < MaxEnvEvents
    /\ events' = events + 1

\* time passes
Tick ==
    /\ clock < MaxTime
    /\ clock' = clock + 1
    /\ world' = [s \in Shares |-> Start(world[s])]
    /\ op' = "env"
    /\ UNCHANGED <<cfg, events, dq, pb, cf, sv, mon, tray>>

\* no set_symlink_atomically in progress
NoPublish == [pc |-> "none", link |-> "absent", resolves |-> FALSE, tmp |-> "absent", target |-> "to_mount", fail |-> "none", link0 |-> "absent"]

\* no config store under study
NoStore == [shares |-> <<>>, aliases |-> <<>>, links |-> {}, cmd |-> "none", res |-> "none", valid0 |-> TRUE]

\* no save in progress
NoSave == [pc |-> "none"]

\* no monitor running
NoMonitor == [pc |-> "none"]

\* no tray installed
NoTray == [in_progress |-> FALSE]

NoQuery == [active |-> NoBackend, tb |-> FALSE, fb |-> FALSE, auto_failback |-> FALSE,
            since |-> NoTime, secs |-> 0, now |-> 0, single |-> NoBackend, dual |-> NoBackend,
            done |-> FALSE]

Init ==
    /\ world \in [Shares -> {InitialWorld(r) : r \in [Backends -> BOOLEAN]}]
    /\ cfg \in [auto_failback : BOOLEAN, auto_failback_stable_secs : 1..MaxStableSecs]
    /\ clock = 0
    /\ op = "env"
    /\ events = 0
    /\ dq = NoQuery
    /\ pb = NoPublish
    /\ cf = NoStore
    /\ sv = NoSave
    /\ mon = NoMonitor
    /\ tray = NoTray

Next ==
    \/ CmdReconcile
    \/ CmdStatus
    \/ CmdMount
    \/ CmdUnmount
    \/ CmdSwitch
    \/ ReachChange
    \/ AliveChange
    \/ HostLost
    \/ OpenChange
    \/ LinkChange
    \/ Tick

Spec == Init /\ [][Next]_vars

\* ------------------------------------------- the desired backend, alone
\* The arguments reconcile_share can hand to the desired-backend functions:
\* a stability timestamp is the `now` of an earlier cycle.
Queries ==
    {q \in [active : OptBackend, tb : BOOLEAN, fb : BOOLEAN, auto_failback : BOOLEAN,
            since : {NoTime} \cup (0..MaxTime), secs : 0..(MaxStableSecs + 1),
            now : 0..(MaxTime + 1), single : {NoBackend}, dual : {NoBackend},
            done : {FALSE}] : q.since <= q.now}

\* reconcile_share, the computation of desired_backend
Decide ==
    /\ ~dq.done
    /\ dq' = [dq EXCEPT
                !.single = choose_desired_backend_single_mount(dq.active, dq.tb, dq.fb,
                               dq.auto_failback, dq.since, dq.secs, dq.now),
                !.dual = choose_desired_backend(dq.active, dq.tb, dq.fb,
                               dq.auto_failback, dq.since, dq.secs, dq.now),
                !.done = TRUE]
    /\ UNCHANGED <<world, cfg, clock, op, events, pb, cf, sv, mon, tray>>

InitDesired ==
    /\ world = [s \in Shares |-> InitialWorld([b \in Backends |-> FALSE])]
    /\ cfg = [auto_failback |-> FALSE, auto_failback_stable_secs |-> 1]
    /\ clock = 0
    /\ op = "env"
    /\ events = 0
    /\ dq \in Queries
    /\ pb = NoPublish
    /\ cf = NoStore
    /\ sv = NoSave
    /\ mon = NoMonitor
    /\ tray = NoTray

NextDesired == Decide

SpecDesired == InitDesired /\ [][NextDesired]_vars

\* ------------------------------------- set_symlink_atomically, step by step
\* The file system calls of set_symlink_atomically, one action each.  pb is
\*   pc        the next call: "check", "remove", "tmp", "symlink", "rename",
\*             or the result "ok" / "err"
\*   link      the node at link_path: nothing, a regular file, a directory,
\*             a symlink to the mount point, a symlink elsewhere
\*   resolves  the target of the symlink at link_path exists
\*   tmp       the node at the temp sibling .<name>.tmp-<pid>
\*   target    the target to publish
\*   fail      the file system call that fails in this run, if any
\*   link0     the node at link_path when the operation started
PublishLinks == {"absent", "file", "dir", "to_mount", "to_other"}

PublishStarts ==
    {q \in [pc : {"check"}, link : PublishLinks, resolves : BOOLEAN, tmp : {"absent", "stale"},
            target : {"to_mount"}, fail : {"none", "remove", "symlink", "rename"},
            link0 : PublishLinks] :
        /\ q.link0 = q.link
        /\ q.link = "absent" => ~q.resolves
        /\ q.link \in NonLinks => q.resolves}

\* link_path.exists(): follows a symlink
publish_exists(q) == q.link \in NonLinks \/ (q.link \in {"to_mount", "to_other"} /\ q.resolves)

\* if link_path.exists() { symlink_metadata; not a symlink => Err }
PubCheck ==
    /\ pb.pc = "check"
    /\ pb' = [pb EXCEPT !.pc = IF ~publish_exists(pb) THEN "tmp"
                               ELSE IF pb.link \in NonLinks THEN "err"
                               ELSE "remove"]
    /\ UNCHANGED <<world, cfg, clock, op, events, dq, cf, sv, mon, tray>>

\* fs::remove_file(link_path)?
PubRemove ==
    /\ pb.pc = "remove"
    /\ pb' = IF pb.fail = "remove" THEN [pb EXCEPT !.pc = "err"]
             ELSE [pb EXCEPT !.pc = "tmp", !.link = "absent", !.resolves = FALSE]
    /\ UNCHANGED <<world, cfg, clock, op, events, dq, cf, sv, mon, tray>>

\* if tmp_path.exists() { let _ = fs::remove_file(&tmp_path); }
PubTmp ==
    /\ pb.pc = "tmp"
    /\ pb' = [pb EXCEPT !.pc = "symlink", !.tmp = "absent"]
    /\ UNCHANGED <<world, cfg, clock, op, events, dq, cf, sv, mon, tray>>

\* std::os::unix::fs::symlink(target, &tmp_path)?
PubSymlink ==
    /\ pb.pc = "symlink"
    /\ pb' = IF pb.fail = "symlink" THEN [pb EXCEPT !.pc = "err"]
             ELSE [pb EXCEPT !.pc = "rename", !.tmp = pb.target]
    /\ UNCHANGED <<world, cfg, clock, op, events, dq, cf, sv, mon, tray>>

\* fs::rename(&tmp_path, link_path)?
PubRename ==
    /\ pb.pc = "rename"
    /\ pb' = IF pb.fail = "rename" THEN [pb EXCEPT !.pc = "err"]
             ELSE [pb EXCEPT !.pc = "ok", !.link = pb.tmp, !.tmp = "absent"]
    /\ UNCHANGED <<world, cfg, clock, op, events, dq, cf, sv, mon, tray>>

InitPublish ==
    /\ world = [s \in Shares |-> InitialWorld([b \in Backends |-> FALSE])]
    /\ cfg = [auto_failback |-> FALSE, auto_failback_stable_secs |-> 1]
    /\ clock = 0
    /\ op = "env"
    /\ events = 0
    /\ dq = NoQuery
    /\ pb \in PublishStarts
    /\ cf = NoStore
    /\ sv = NoSave
    /\ mon = NoMonitor
    /\ tray = NoTray

NextPublish ==
    \/ PubCheck
    \/ PubRemove
    \/ PubTmp
    \/ PubSymlink
    \/ PubRename

SpecPublish == InitPublish /\ [][NextPublish]_vars

\* ------------------------------------------------------- the config store
\* The commands that edit config.toml: favorites add / remove and alias
\* add / remove.  Each is one process: load (with validate), edit, save.  cf is
\*   shares   the [[shares]] of the config file: name, thunderbolt_host,
\*            fallback_host (username and share_name play no part here)
\*   aliases  the [[aliases]] of the config file: name, share
\*   links    the alias names at whose path a symlink exists
\*   cmd, res the last command and its outcome
\*   valid0   the config file passed validate when the run started
MaxShares == 2
MaxAliases == 2

ShareConfigs == [name : {"core", "CORE", "data", " "}, thunderbolt_host : {"nas", " "}, fallback_host : {"nas", ""}]

AliasConfigs == [name : {"docs", "DOCS", ""}, share : {"core", "data"}]

\* str::to_ascii_lowercase on the names of the model
to_ascii_lowercase(s) == CASE s = "CORE" -> "core" [] s = "DOCS" -> "docs" [] OTHER -> s

\* str::eq_ignore_ascii_case
eq_ignore_ascii_case(a, b) == to_ascii_lowercase(a) = to_ascii_lowercase(b)

\* str::trim on the strings of the model
trim(s) == IF s = " " THEN "" ELSE s

\* Iterator::position with eq_ignore_ascii_case on the name: the first index
\* of an entry of seq named name, 0 for None
position(seq, name) ==
    LET hits == {i \in 1..Len(seq) : eq_ignore_ascii_case(seq[i].name, name)}
    IN IF hits = {} THEN 0 ELSE CHOOSE i \in hits : \A j \in hits : i <= j

\* Vec::remove
RemoveAt(seq, i) == SubSeq(seq, 1, i - 1) \o SubSeq(seq, i + 1, Len(seq))

\* validate, the body of the loop over the shares for share i
validate_share(shares, i) ==
    IF trim(shares[i].name) = "" THEN "empty_name"
    ELSE IF trim(shares[i].thunderbolt_host) = "" THEN "empty_thunderbolt_host"
    ELSE IF trim(shares[i].fallback_host) = "" THEN "empty_fallback_host"
    ELSE IF \E j \in 1..(i - 1) : eq_ignore_ascii_case(shares[j].name, shares[i].name)
    THEN "duplicate_share_name"
    ELSE "ok"

\* validate, the body of the loop over the aliases for alias i
validate_alias(aliases, i) ==
    IF trim(aliases[i].name) = "" THEN "empty_alias_name"
    ELSE IF \E j \in 1..(i - 1) : eq_ignore_ascii_case(aliases[j].name, aliases[i].name)
    THEN "duplicate_alias_name"
    ELSE "ok"

\* validate: the error of the first entry that fails, shares first
validate(c) ==
    LET bad_shares == {i \in 1..Len(c.shares) : validate_share(c.shares, i) # "ok"}
        bad_aliases == {i \in 1..Len(c.aliases) : validate_alias(c.aliases, i) # "ok"}
    IN IF bad_shares # {}
       THEN validate_share(c.shares, CHOOSE i \in bad_shares : \A j \in bad_shares : i <= j)
       ELSE IF bad_aliases # {}
       THEN validate_alias(c.aliases, CHOOSE i \in bad_aliases : \A j \in bad_aliases : i <= j)
       ELSE "ok"

\* config::find_share: the index of the share, 0 for None
find_share(c, name) == position(c.shares, name)

\* config::find_share_mut
find_share_mut(c, name) == find_share(c, name)

\* an add that appends without looking for the name
add_share_unchecked(c, share) == [c EXCEPT !.shares = Append(@, share)]

\* add_or_update_share
add_or_update_share(c, share) ==
    IF find_share_mut(c, share.name) # 0
    THEN [c EXCEPT !.shares[find_share_mut(c, share.name)] = share]
    ELSE [c EXCEPT !.shares = Append(@, share)]

\* remove_share: <<found, config>>
remove_share(c, share_name) ==
    IF position(c.shares, share_name) = 0 THEN <<FALSE, c>>
    ELSE <<TRUE, [c EXCEPT !.shares = RemoveAt(@, position(c.shares, share_name))]>>

\* add_alias: <<result, config>>
add_alias(c, alias) ==
    IF position(c.aliases, alias.name) # 0 THEN <<"alias_exists", c>>
    ELSE IF find_share(c, alias.share) = 0 THEN <<"share_not_configured", c>>
    ELSE <<"ok", [c EXCEPT !.aliases = Append(@, alias)]>>

\* remove_alias: <<found, config>>
remove_alias(c, name) ==
    IF position(c.aliases, name) = 0 THEN <<FALSE, c>>
    ELSE <<TRUE, [c EXCEPT !.aliases = RemoveAt(@, position(c.aliases, name))]>>

\* the end of a store command: config::save of the edited config c, or the
\* error; disk is the store the command found
saved(disk, c, cmd, save_ok) ==
    IF save_ok THEN [c EXCEPT !.cmd = cmd, !.res = "ok"]
    ELSE [disk EXCEPT !.cmd = cmd, !.res = "save_failed"]

\* cmd_favorites, Add: load, add the share, save
favorites_add(c, share, save_ok) ==
    IF validate(c) # "ok" THEN [c EXCEPT !.cmd = "favorites_add", !.res = "load_failed"]
    ELSE saved(c, add_or_update_share(c, share), "favorites_add", save_ok)

\* cmd_favorites, Remove: load, remove the share, save
favorites_remove(c, share_name, save_ok) ==
    IF validate(c) # "ok" THEN [c EXCEPT !.cmd = "favorites_remove", !.res = "load_failed"]
    ELSE IF ~remove_share(c, share_name)[1]
    THEN [c EXCEPT !.cmd = "favorites_remove", !.res = "not_found"]
    ELSE saved(c, remove_share(c, share_name)[2], "favorites_remove", save_ok)

\* cmd_alias, Add: load, add the alias, save, reconcile_alias; link_ok is
\* the result of set_symlink_atomically at the alias path
alias_add(c, alias, save_ok, link_ok) ==
    IF validate(c) # "ok" THEN [c EXCEPT !.cmd = "alias_add", !.res = "load_failed"]
    ELSE IF add_alias(c, alias)[1] # "ok"
    THEN [c EXCEPT !.cmd = "alias_add", !.res = add_alias(c, alias)[1]]
    ELSE IF ~save_ok THEN [c EXCEPT !.cmd = "alias_add", !.res = "save_failed"]
    ELSE [add_alias(c, alias)[2] EXCEPT !.cmd = "alias_add", !.res = "ok",
                                        !.links = IF link_ok THEN @ \cup {alias.name} ELSE @]

\* cmd_alias, Remove: load, remove the alias, save, print
alias_remove(c, name, save_ok) ==
    IF validate(c) # "ok" THEN [c EXCEPT !.cmd = "alias_remove", !.res = "load_failed"]
    ELSE IF ~remove_alias(c, name)[1]
    THEN [c EXCEPT !.cmd = "alias_remove", !.res = "not_found"]
    ELSE saved(c, remove_alias(c, name)[2], "alias_remove", save_ok)

CmdFavoritesAdd ==
    /\ \E share \in ShareConfigs, save_ok \in BOOLEAN :
          /\ find_share_mut(cf, share.name) # 0 \/ Len(cf.shares) < MaxShares
          /\ cf' = favorites_add(cf, share, save_ok)
    /\ UNCHANGED <<world, cfg, clock, op, events, dq, pb, sv, mon, tray>>

CmdFavoritesRemove ==
    /\ \E share \in ShareConfigs, save_ok \in BOOLEAN :
          cf' = favorites_remove(cf, share.name, save_ok)
    /\ UNCHANGED <<world, cfg, clock, op, events, dq, pb, sv, mon, tray>>

CmdAliasAdd ==
    /\ \E alias \in AliasConfigs, save_ok \in BOOLEAN, link_ok \in BOOLEAN :
          /\ Len(cf.aliases) < MaxAliases
          /\ cf' = alias_add(cf, alias, save_ok, link_ok)
    /\ UNCHANGED <<world, cfg, clock, op, events, dq, pb, sv, mon, tray>>

CmdAliasRemove ==
    /\ \E alias \in AliasConfigs, save_ok \in BOOLEAN :
          cf' = alias_remove(cf, alias.name, save_ok)
    /\ UNCHANGED <<world, cfg, clock, op, events, dq, pb, sv, mon, tray>>

\* the sequences over set S of length at most n
SeqUpTo(S, n) == UNION {[1..k -> S] : k \in 0..n}

\* the config files of the model, valid or not
StoreStarts ==
    {[shares |-> s, aliases |-> a, links |-> {a[i].name : i \in 1..Len(a)},
      cmd |-> "none", res |-> "none", valid0 |-> TRUE] :
        s \in SeqUpTo(ShareConfigs, MaxShares), a \in SeqUpTo(AliasConfigs, MaxAliases)}

InitStore ==
    /\ world = [s \in Shares |-> InitialWorld([b \in Backends |-> FALSE])]
    /\ cfg = [auto_failback |-> FALSE, auto_failback_stable_secs |-> 1]
    /\ clock = 0
    /\ op = "env"
    /\ events = 0
    /\ dq = NoQuery
    /\ pb = NoPublish
    /\ cf \in {[c EXCEPT !.valid0 = validate(c) = "ok"] : c \in StoreStarts}
    /\ sv = NoSave
    /\ mon = NoMonitor
    /\ tray = NoTray

NextStore ==
    \/ CmdFavoritesAdd
    \/ CmdFavoritesRemove
    \/ CmdAliasAdd
    \/ CmdAliasRemove

SpecStore == InitStore /\ [][NextStore]_vars

\* ------------------------------------------------------ saving the files
\* save_runtime_state and config::save, one system call at a time.  sv is
\*   file     "state" for save_runtime_state, "config" for config::save
\*   pc       the next step; "done", "failed" (an error was returned) or
\*            "crashed" (the process died) at the end
\*   dir      the parent directory exists
\*   target   the content of the file at the path: "absent", "old", "empty",
\*            "partial" (a prefix of the new text) or "new"
\*   target0  the content of that file when the save started
\*   tmp      the content of config.toml.tmp, "stale" for one left behind
\*   n        the chunks of the new text that fs::write has stored
MaxChunks == 3

SaveFiles == {"state", "config"}

SaveStarts ==
    {[pc |-> "mkdir", file |-> f, dir |-> d, target |-> t, target0 |-> t, tmp |-> m, n |-> 0] :
        f \in SaveFiles, d \in BOOLEAN, t \in {"absent", "old"}, m \in {"absent", "stale"}}

\* the path fs::write writes: the file itself for the state, the temp file
\* for the config
write_path(q) == IF q.file = "config" THEN "tmp" ELSE "target"

\* the file at the path fs::write writes gets content c
written(q, c) == IF write_path(q) = "tmp" THEN [q EXCEPT !.tmp = c] ELSE [q EXCEPT !.target = c]

\* fs::create_dir_all(parent)
SaveMkdir ==
    /\ sv.pc = "mkdir"
    /\ sv' = [sv EXCEPT !.dir = TRUE, !.pc = "open"]
    /\ UNCHANGED <<world, cfg, clock, op, events, dq, pb, cf, mon, tray>>

\* fs::write: File::create opens the path, creating or truncating it
SaveOpen ==
    /\ sv.pc = "open"
    /\ sv' = [written(sv, "empty") EXCEPT !.pc = "write"]
    /\ UNCHANGED <<world, cfg, clock, op, events, dq, pb, cf, mon, tray>>

\* fs::write: write_all, one write call; it stores k more of the chunks of
\* the text, and write_all calls again until all of them are stored
SaveWrite ==
    /\ sv.pc = "write"
    /\ \E k \in 1..(MaxChunks - sv.n) :
          sv' = IF sv.n + k = MaxChunks
                THEN [written(sv, "new") EXCEPT !.n = MaxChunks, !.pc = IF sv.file = "config" THEN "rename" ELSE "done"]
                ELSE [written(sv, "partial") EXCEPT !.n = sv.n + k]
    /\ UNCHANGED <<world, cfg, clock, op, events, dq, pb, cf, mon, tray>>

\* config::save: fs::rename(tmp_path, path)
SaveRename ==
    /\ sv.pc = "rename"
    /\ sv' = [sv EXCEPT !.target = sv.tmp, !.tmp = "absent", !.pc = "done"]
    /\ UNCHANGED <<world, cfg, clock, op, events, dq, pb, cf, mon, tray>>

\* the step in turn returns an error: `?` ends the save
SaveFail ==
    /\ sv.pc \in {"mkdir", "open", "write", "rename"}
    /\ sv' = [sv EXCEPT !.pc = "failed"]
    /\ UNCHANGED <<world, cfg, clock, op, events, dq, pb, cf, mon, tray>>

\* the process dies before the step in turn
SaveCrash ==
    /\ sv.pc \in {"mkdir", "open", "write", "rename"}
    /\ sv' = [sv EXCEPT !.pc = "crashed"]
    /\ UNCHANGED <<world, cfg, clock, op, events, dq, pb, cf, mon, tray>>

InitSave ==
    /\ world = [s \in Shares |-> InitialWorld([b \in Backends |-> FALSE])]
    /\ cfg = [auto_failback |-> FALSE, auto_failback_stable_secs |-> 1]
    /\ clock = 0
    /\ op = "env"
    /\ events = 0
    /\ dq = NoQuery
    /\ pb = NoPublish
    /\ cf = NoStore
    /\ sv \in {q \in SaveStarts : q.dir \/ (q.target = "absent" /\ q.tmp = "absent")}
    /\ mon = NoMonitor
    /\ tray = NoTray

NextSave ==
    \/ SaveMkdir
    \/ SaveOpen
    \/ SaveWrite
    \/ SaveRename
    \/ SaveFail
    \/ SaveCrash

SpecSave == InitSave /\ [][NextSave]_vars

\* ------------------------------------------------------- the monitor loop
\* cmd_monitor and the channel the network-monitor thread sends on.  mon is
\*   pc         "reconcile" (reconcile_all of the cycle), "save"
\*              (save_runtime_state), "wait" (recv_timeout(interval)),
\*              "debounce" (the drain loop) or "exited" (cmd_monitor returned)
\*   connected  the sender of the channel is alive
\*   queue      the events in the channel
\*   sent       the events sc_callback has sent
\*   trigger    what started the cycle: "start", "timer" or "event"
\*   saved      the result of the last save_runtime_state
\*   inrec      the events that arrived during reconcile_all or the save of
\*              the cycle
\*   burst      inrec of the cycle before
\*   evcycles   the cycles an event has started since the last event arrived
\*   disk_ver   the version of the config file on disk, 0 for the one
\*              cmd_monitor loaded before the loop (initial_cfg)
\*   disk_ok    the config file on disk parses and passes validate
\*   last_good  the version of the latest load of the loop that succeeded,
\*              initial_cfg before the first
\*   loaded     the result of the load of the cycle
\*   used       the version of the config the cycle reconciles with
MaxEvents == 3

MaxEdits == 2

MonitorStarts ==
    {[pc |-> "reconcile", connected |-> c, queue |-> 0, sent |-> 0, trigger |-> "start",
      saved |-> "none", inrec |-> 0, burst |-> 0, evcycles |-> 0,
      disk_ver |-> 0, disk_ok |-> TRUE, last_good |-> 0, loaded |-> "none", used |-> 0] : c \in BOOLEAN}

\* config::load().unwrap_or(initial_cfg.clone()): the version the cycle uses
monitor_config(q) == IF q.disk_ok THEN q.disk_ver ELSE 0

\* the loop starts its next cycle
next_cycle(q, trigger) ==
    [q EXCEPT !.pc = "reconcile", !.trigger = trigger, !.burst = q.inrec, !.inrec = 0,
              !.evcycles = IF trigger = "event" THEN @ + 1 ELSE @]

\* a debounce that ends without draining the channel
debounce_skipped(q) == TRUE

\* the drain loop ends: recv_timeout(debounce) is not Ok, the channel is empty
debounce_done(q) == q.queue = 0

\* the hot reload of the config, engine::reconcile_all and print_status_table
MonReconcile ==
    /\ mon.pc = "reconcile"
    /\ mon' = [mon EXCEPT !.pc = "save",
                          !.loaded = IF mon.disk_ok THEN "ok" ELSE "failed",
                          !.used = monitor_config(mon),
                          !.last_good = IF mon.disk_ok THEN mon.disk_ver ELSE @]
    /\ UNCHANGED <<world, cfg, clock, op, events, dq, pb, cf, sv, tray>>

\* engine::save_runtime_state(&state)?
MonSave ==
    /\ mon.pc = "save"
    /\ \E save_ok \in BOOLEAN :
          mon' = IF save_ok THEN [mon EXCEPT !.pc = "wait", !.saved = "ok"]
                 ELSE [mon EXCEPT !.pc = "exited", !.saved = "failed"]
    /\ UNCHANGED <<world, cfg, clock, op, events, dq, pb, cf, sv, tray>>

\* recv_timeout(interval) is Ok(event)
MonWaitRecv ==
    /\ mon.pc = "wait"
    /\ mon.queue > 0
    /\ mon' = [mon EXCEPT !.pc = "debounce", !.queue = @ - 1]
    /\ UNCHANGED <<world, cfg, clock, op, events, dq, pb, cf, sv, tray>>

\* recv_timeout(interval) is Err(Timeout)
MonWaitTimeout ==
    /\ mon.pc = "wait"
    /\ mon.queue = 0
    /\ mon.connected
    /\ mon' = next_cycle(mon, "timer")
    /\ UNCHANGED <<world, cfg, clock, op, events, dq, pb, cf, sv, tray>>

\* recv_timeout(interval) is Err(Disconnected): sleep(interval)
MonWaitDisconnected ==
    /\ mon.pc = "wait"
    /\ mon.queue = 0
    /\ ~mon.connected
    /\ mon' = next_cycle(mon, "timer")
    /\ UNCHANGED <<world, cfg, clock, op, events, dq, pb, cf, sv, tray>>

\* while recv_timeout(debounce).is_ok() {}: one more event taken
MonDrain ==
    /\ mon.pc = "debounce"
    /\ ~debounce_done(mon)
    /\ mon.queue > 0
    /\ mon' = [mon EXCEPT !.queue = @ - 1]
    /\ UNCHANGED <<world, cfg, clock, op, events, dq, pb, cf, sv, tray>>

\* the drain loop ends and the loop starts the immediate reconcile
MonDebounceEnd ==
    /\ mon.pc = "debounce"
    /\ debounce_done(mon)
    /\ mon' = next_cycle(mon, "event")
    /\ UNCHANGED <<world, cfg, clock, op, events, dq, pb, cf, sv, tray>>

\* sc_callback: tx.send(NetworkChangeEvent)
SendEvent ==
    /\ mon.pc # "exited"
    /\ mon.connected
    /\ mon.sent < MaxEvents
    /\ mon' = [mon EXCEPT !.queue = @ + 1, !.sent = @ + 1, !.evcycles = 0,
                          !.inrec = IF mon.pc \in {"reconcile", "save"} THEN @ + 1 ELSE @]
    /\ UNCHANGED <<world, cfg, clock, op, events, dq, pb, cf, sv, tray>>

\* the user or a config command rewrites config.toml while the monitor runs
ConfigEdit ==
    /\ mon.pc # "exited"
    /\ mon.disk_ver < MaxEdits
    /\ \E ok \in BOOLEAN : mon' = [mon EXCEPT !.disk_ver = @ + 1, !.disk_ok = ok]
    /\ UNCHANGED <<world, cfg, clock, op, events, dq, pb, cf, sv, tray>>

InitMonitor ==
    /\ world = [s \in Shares |-> InitialWorld([b \in Backends |-> FALSE])]
    /\ cfg = [auto_failback |-> FALSE, auto_failback_stable_secs |-> 1]
    /\ clock = 0
    /\ op = "env"
    /\ events = 0
    /\ dq = NoQuery
    /\ pb = NoPublish
    /\ cf = NoStore
    /\ sv = NoSave
    /\ mon \in MonitorStarts
    /\ tray = NoTray

NextMonitor ==
    \/ MonReconcile
    \/ MonSave
    \/ MonWaitRecv
    \/ MonWaitTimeout
    \/ MonWaitDisconnected
    \/ MonDrain
    \/ MonDebounceEnd
    \/ SendEvent
    \/ ConfigEdit

SpecMonitor == InitMonitor /\ [][NextMonitor]_vars

\* sc_callback once MaxEvents events have been counted: events keep
\* arriving, as many as the channel of the model holds
SendMore ==
    /\ mon.pc # "exited"
    /\ mon.connected
    /\ mon.sent = MaxEvents
    /\ mon.queue < MaxEvents
    /\ mon' = [mon EXCEPT !.queue = @ + 1, !.evcycles = 0,
                          !.inrec = IF mon.pc \in {"reconcile", "save"} /\ @ < MaxEvents THEN @ + 1 ELSE @]
    /\ UNCHANGED <<world, cfg, clock, op, events, dq, pb, cf, sv, tray>>

\* the steps of the thread that runs cmd_monitor
MonitorLoop ==
    \/ MonReconcile
    \/ MonSave
    \/ MonWaitRecv
    \/ MonWaitTimeout
    \/ MonWaitDisconnected
    \/ MonDrain
    \/ MonDebounceEnd

NextMonitorLive ==
    \/ MonReconcile
    \/ MonSave
    \/ MonWaitRecv
    \/ MonWaitTimeout
    \/ MonWaitDisconnected
    \/ MonDrain
    \/ MonDebounceEnd
    \/ SendEvent
    \/ SendMore
    \/ ConfigEdit

\* the monitor with events that never stop arriving; the thread of the
\* loop keeps being scheduled
SpecMonitorLive == InitMonitor /\ [][NextMonitorLive]_vars /\ WF_vars(MonitorLoop)

\* ------------------------------------------------- two shares, one state
\* RuntimeState.shares is one map from the lowercased share name to the
\* entry of the share.  Here world is that map for a config with two shares
\* (together with what the OS holds for each), and a step is the processing
\* of one share: one reconcile_share of reconcile_all, or one cmd_switch.
\* op is the name of the share the step processed.
FrameShares == {"CORE", "data"}

\* the driver answers of a step: every call of a kind succeeds or fails
FrameInputs == {i \in OnceInputs : i.um \in {"ok", "fail"}}

\* an entry lookup that lands every share on the entry of one of them
state_entry_shared(share_name) == "core"

\* state_entry_mut: the key of the entry of the share
state_entry_mut(share_name) == to_ascii_lowercase(share_name)

\* reconcile_all, the processing of one share
FrameReconcile ==
    /\ \E x \in FrameShares, inp \in FrameInputs :
          /\ world' = [world EXCEPT ![state_entry_mut(x)] =
                          reconcile_share(Start(@), cfg, TRUE, TRUE, clock, inp).w]
          /\ op' = x
    /\ UNCHANGED <<cfg, clock, events, dq, pb, cf, sv, mon, tray>>

\* cmd_switch of one share
FrameSwitch ==
    /\ \E x \in FrameShares, to \in Backends, force \in BOOLEAN, inp \in FrameInputs :
          /\ world' = [world EXCEPT ![state_entry_mut(x)] = cmd_switch(Start(@), to, force, clock, inp)]
          /\ op' = x
    /\ UNCHANGED <<cfg, clock, events, dq, pb, cf, sv, mon, tray>>

InitFrame ==
    /\ world = [k \in {to_ascii_lowercase(x) : x \in FrameShares} |-> InitialWorld([b \in Backends |-> TRUE])]
    /\ cfg = [auto_failback |-> FALSE, auto_failback_stable_secs |-> 1]
    /\ clock = 0
    /\ op = "env"
    /\ events = 0
    /\ dq = NoQuery
    /\ pb = NoPublish
    /\ cf = NoStore
    /\ sv = NoSave
    /\ mon = NoMonitor
    /\ tray = NoTray

NextFrame ==
    \/ FrameReconcile
    \/ FrameSwitch

SpecFrame == InitFrame /\ [][NextFrame]_vars

\* ------------------------------------------------- the tray's auto-mount
\* trigger_mount and the worker threads it spawns.  tray is
\*   in_progress  the AtomicBool mount_in_progress
\*   workers      the worker threads spawned so far, in order; of each
\*                  pc      "cycle" (in auto_mount_cycle), "store" (about to
\*                          clear the flag), "send" (about to send the
\*                          completion) or "done"
\*                  verify  the verify_liveness it was started with
\*                  clears  the times it has cleared the flag
\*                  sends   the completion messages it has sent
\*   done_queue   the messages in the mount_done channel
\*   ret          what the last trigger_mount returned, "none" before any
\*   calls        the trigger_mount calls so far
MaxWorkers == 3

MaxTriggers == 4

\* the callers of trigger_mount: the menu item, the startup and wake
\* auto-mounts and the periodic / network-triggered one
Triggers == {"mount-all", "startup", "wake", "periodic"}

TrayStart == [in_progress |-> FALSE, workers |-> <<>>, done_queue |-> 0, ret |-> "none", calls |-> 0]

\* a test of the flag that never finds it set
swap_unset(t) == FALSE

\* in_progress.swap(true, SeqCst): the value the flag had
swap(t) == t.in_progress

\* trigger_mount: the swap, and the spawn of the worker when the flag was clear
trigger_mount(t, verify_liveness) ==
    IF swap(t) THEN [t EXCEPT !.ret = "false", !.calls = @ + 1]
    ELSE [t EXCEPT !.in_progress = TRUE,
                   !.workers = Append(@, [pc |-> "cycle", verify |-> verify_liveness, clears |-> 0, sends |-> 0]),
                   !.ret = "true", !.calls = @ + 1]

\* the tray loop or handle_menu_event calls trigger_mount
TriggerMount ==
    /\ tray.calls < MaxTriggers
    /\ Len(tray.workers) < MaxWorkers
    /\ \E src \in Triggers : tray' = trigger_mount(tray, src = "wake")
    /\ UNCHANGED <<world, cfg, clock, op, events, dq, pb, cf, sv, mon>>

\* the worker: auto_mount_cycle(verify_liveness) returns
WorkerCycle ==
    /\ \E i \in 1..Len(tray.workers) :
          /\ tray.workers[i].pc = "cycle"
          /\ tray' = [tray EXCEPT !.workers[i].pc = "store"]
    /\ UNCHANGED <<world, cfg, clock, op, events, dq, pb, cf, sv, mon>>

\* the worker: flag.store(false, Release)
WorkerStore ==
    /\ \E i \in 1..Len(tray.workers) :
          /\ tray.workers[i].pc = "store"
          /\ tray' = [tray EXCEPT !.in_progress = FALSE, !.workers[i].pc = "send",
                                  !.workers[i].clears = @ + 1]
    /\ UNCHANGED <<world, cfg, clock, op, events, dq, pb, cf, sv, mon>>

\* the worker: tx.send(count), and the thread ends
WorkerSend ==
    /\ \E i \in 1..Len(tray.workers) :
          /\ tray.workers[i].pc = "send"
          /\ tray' = [tray EXCEPT !.done_queue = @ + 1, !.workers[i].pc = "done",
                                  !.workers[i].sends = @ + 1]
    /\ UNCHANGED <<world, cfg, clock, op, events, dq, pb, cf, sv, mon>>

\* the tray loop: mount_done_rx.try_recv() takes a completion
TrayRecvDone ==
    /\ tray.done_queue > 0
    /\ tray' = [tray EXCEPT !.done_queue = @ - 1]
    /\ UNCHANGED <<world, cfg, clock, op, events, dq, pb, cf, sv, mon>>

InitTray ==
    /\ world = [s \in Shares |-> InitialWorld([b \in Backends |-> FALSE])]
    /\ cfg = [auto_failback |-> FALSE, auto_failback_stable_secs |-> 1]
    /\ clock = 0
    /\ op = "env"
    /\ events = 0
    /\ dq = NoQuery
    /\ pb = NoPublish
    /\ cf = NoStore
    /\ sv = NoSave
    /\ mon = NoMonitor
    /\ tray = TrayStart

NextTray ==
    \/ TriggerMount
    \/ WorkerCycle
    \/ WorkerStore
    \/ WorkerSend
    \/ TrayRecvDone

SpecTray == InitTray /\ [][NextTray]_vars

\* ================================================================== claims
\* the commands after which the persisted state is on disk
Commands == {"reconcile", "switch", "switch_force", "mount", "unmount", "unmount_force"}

\* the most recent command issued call c for the share of world w
Called(w, c) == \E i \in 1..Len(w.calls) : w.calls[i] = c

\* C1 (single mount): in every reachable state at most one of the two
\* backends of a share is mounted, and no command has issued a mount of one
\* backend while the other backend of the share was still mounted.
C1_SingleMount ==
    \A s \in Shares : Cardinality(world[s].mounted) <= 1 /\ ~world[s].dual

\* Step D of the reconcile cycle, as the specification's table states it
StepD(active, primary_reachable, fallback_reachable, auto_failback, stable_elapsed) ==
    CASE active = NoBackend ->
            IF primary_reachable THEN Tb
            ELSE IF fallback_reachable THEN Fallback
            ELSE NoBackend
      [] active = Tb ->
            IF primary_reachable THEN Tb ELSE Fallback
      [] active = Fallback ->
            IF primary_reachable /\ (~fallback_reachable \/ (auto_failback /\ stable_elapsed))
            THEN Tb ELSE Fallback

\* stability_since is at least failback_stable_window old
StableElapsed(q) == q.since # NoTime /\ q.now - q.since >= q.secs

\* C2 (desired-backend table): for every active backend, reachability of the
\* two hosts, auto_failback and elapsed-or-not stability window, the backend
\* choose_desired_backend_single_mount returns is the one Step D names.
C2_DesiredBackendTable ==
    dq.done => dq.single = StepD(dq.active, dq.tb, dq.fb, dq.auto_failback, StableElapsed(dq))

\* C2 witness: a decided query on Fallback, both hosts reachable, automatic
\* failback on and the window elapsed, answered with Tb.
C2_FailbackDecided ==
    /\ dq.done /\ dq.active = Fallback /\ dq.tb /\ dq.fb
    /\ dq.auto_failback /\ StableElapsed(dq) /\ dq.secs > 0
    /\ dq.single = Tb

\* C3 (busy denial): a manual switch without force, run while the mount has
\* open handles, returns BusyOpenFiles, issues no unmount and no mount, and
\* leaves the mount table and the persisted runtime state as they were.
C3_BusyDenial ==
    [][\A s \in Shares :
         (/\ op' = "switch"
          /\ world'[s].sw.res \notin {"none", "no_active_backend", "already_on_target"}
          /\ has_open_handles(world[s]))
         => /\ world'[s].sw.res = "BusyOpenFiles"
            /\ world'[s].calls = <<>>
            /\ world'[s].mounted = world[s].mounted
            /\ world'[s].rt = world[s].rt]_vars

\* C3 witness: a manual switch without force has just been denied on a share
\* whose mount has open handles.
C3_SwitchDenied ==
    /\ op = "switch"
    /\ \E s \in Shares :
          /\ world[s].sw.res = "BusyOpenFiles"
          /\ has_open_handles(world[s])
          /\ world[s].rt.active_backend # NoBackend

\* C4 (rollback success): when a switch ends MountFailed{rolled_back: true},
\* the previous backend is the one mounted, the stable symlink points at the
\* mount point, active_backend is what it was and last_error is populated.
C4_RollbackSuccess ==
    [][\A s \in Shares :
         world'[s].sw.res = "MountFailed_rb"
         => /\ world'[s].mounted = {world'[s].sw.from}
            /\ world'[s].link = "to_mount"
            /\ world'[s].rt.active_backend = world[s].rt.active_backend
            /\ world'[s].rt.last_error # NoError]_vars

\* C5 (rollback failure): when a switch, manual or automatic, ends
\* MountFailed{rolled_back: false}, active_backend is empty and last_error is
\* populated (the least "reflects both failures" asks for).
C5_RollbackFailure ==
    \A s \in Shares :
        world[s].sw.res = "MountFailed_norb"
        => /\ world[s].rt.active_backend = NoBackend
           /\ world[s].rt.last_error # NoError

\* C6 (state idempotence): from every reachable state, under every fixed
\* answer of the environment, a full reconcile cycle followed by a second
\* one a second later leaves the runtime state the first cycle left.
C6_StateIdempotence ==
    \A s \in Shares, inp \in OnceInputs :
        LET w1 == reconcile_share(Start(world[s]), cfg, TRUE, TRUE, clock, inp).w
            w2 == reconcile_share(Start(w1), cfg, TRUE, TRUE, clock + 1, inp).w
        IN w2.rt = w1.rt

\* the commands that run reconcile_share, and so probe Tb and update the
\* stability windows
Cycles == {"reconcile", "status", "mount"}

\* C7 (monotone stability windows): tb_reachable_since is cleared by every
\* cycle whose probe finds Tb unreachable, is set only from empty, to the
\* cycle's now and with Tb found reachable, and never goes from one
\* non-empty value to another.
C7_MonotoneWindows ==
    [][\A s \in Shares :
         LET before == world[s].rt.tb_reachable_since
             after == world'[s].rt.tb_reachable_since
         IN /\ (before # NoTime /\ after # NoTime) => after = before
            /\ (op' \in Cycles /\ ~world[s].reach[Tb]) => after = NoTime
            /\ (before = NoTime /\ after # NoTime)
                  => (op' \in Cycles /\ world[s].reach[Tb] /\ after = clock)]_vars

\* C7 witness: a reconcile cycle has run at a time later than the timestamp
\* it found, with Tb reachable, and the timestamp is still the earlier one.
C7_WindowKept ==
    /\ op = "reconcile"
    /\ \E s \in Shares :
          /\ world[s].reach[Tb]
          /\ world[s].rt.tb_reachable_since # NoTime
          /\ world[s].rt.tb_reachable_since < clock

\* C8 (state matches disk on quiescence): after a reconcile cycle, a switch,
\* mount --all or unmount --all, the persisted active_backend is the backend
\* mounted at the mount point, and is empty if nothing is mounted there.
C8_StateMatchesDisk ==
    op \in Commands
    => \A s \in Shares :
          IF world[s].mounted = {} THEN world[s].rt.active_backend = NoBackend
          ELSE world[s].mounted = {world[s].rt.active_backend}

\* C9 (stable path, with repair): at the end of a full reconcile cycle, if
\* active_backend is set and that backend is mounted, alive and reachable,
\* then the stable path is a symlink to the mount point -- stated for the
\* cycles that do not find a file or directory there, which publish must
\* not replace.
C9_StablePathRepaired ==
    op = "reconcile"
    => \A s \in Shares :
          (/\ world[s].rt.active_backend # NoBackend
           /\ world[s].rt.active_backend \in world[s].mounted
           /\ world[s].alive
           /\ world[s].reach[world[s].rt.active_backend]
           /\ world[s].link \notin NonLinks)
          => world[s].link = "to_mount"

\* C10 (symlink safety): set_symlink_atomically on a stable path that holds
\* a regular file or a directory returns an error and leaves that node in
\* place; a command that publishes leaves it in place.
C10_SymlinkSafety ==
    [][\A s \in Shares :
         /\ \A k \in NonLinks :
               LET r == set_symlink_atomically([world[s] EXCEPT !.link = k], "to_mount")
               IN ~r[1] /\ r[2].link = k
         /\ (world[s].link \in NonLinks /\ Called(world'[s], "publish"))
               => world'[s].link = world[s].link]_vars

\* C10 witness: a reconcile cycle has called publish on a stable path that
\* holds a directory, and the directory is still there.
C10_DirectoryKept ==
    /\ op = "reconcile"
    /\ \E s \in Shares : world[s].link = "dir" /\ Called(world[s], "publish")

\* C11 (atomicity of publish): while set_symlink_atomically replaces an
\* existing symlink, at every step -- and so wherever the process stops --
\* the link path holds the old symlink or the new one; it is never without
\* a link.
C11_PublishAtomic ==
    (pb.pc # "none" /\ pb.link0 \in {"to_mount", "to_other"})
    => pb.link \in {pb.link0, pb.target}

\* the status of backend b in the ShareStatus st
StatusOf(st, b) == IF b = Tb THEN st.tb ELSE st.fallback

\* the driver calls of a cycle that mounts backend b all succeed
DriverOk(inp, b) == inp.um = "ok" /\ inp.mnt[b] = "ok"

DriverCalls(w) == {i \in 1..Len(w.calls) : w.calls[i] # "publish"}

\* C14 (recovery pending without auto-failback): with auto_failback = false,
\* an automatic cycle that finds active_backend = Fallback mounted, alive
\* and reachable, and Tb reachable, runs no switch, no unmount and no mount,
\* leaves active_backend = Fallback and ends with tb_recovery_pending = true;
\* as a property of every reachable state it holds for every number of
\* consecutive such cycles.
C14_RecoveryPending ==
    \A s \in Shares, inp \in Inputs :
        LET w == Start(world[s])
            r == reconcile_share(w, cfg, TRUE, TRUE, clock, inp)
        IN (/\ ~cfg.auto_failback
            /\ w.rt.active_backend = Fallback
            /\ w.mounted = {Fallback} /\ w.alive /\ w.reach[Fallback]
            /\ w.reach[Tb])
           => /\ r.w.sw = NoSwitch
              /\ DriverCalls(r.w) = {}
              /\ r.w.rt.active_backend = Fallback
              /\ r.w.rt.tb_recovery_pending

\* C15 (auto-failback only after the stability window): with auto_failback
\* = true, an automatic cycle that finds active_backend = Fallback mounted,
\* alive and reachable invokes the switch Fallback -> Tb if and only if Tb
\* is reachable and now - stability_since >= auto_failback_stable_secs,
\* stability_since being the cycle's own (a cycle that saw Tb unreachable
\* has cleared it); a successful failback ends with active_backend = Tb and
\* tb_recovery_pending = false.
C15_AutoFailback ==
    \A s \in Shares, inp \in Inputs :
        LET w == Start(world[s])
            r == reconcile_share(w, cfg, TRUE, TRUE, clock, inp)
            since == stability_since(update_windows(w.rt, r.status.tb, clock))
            elapsed == since # NoTime /\ clock - since >= cfg.auto_failback_stable_secs
        IN (/\ cfg.auto_failback
            /\ w.rt.active_backend = Fallback
            /\ w.mounted = {Fallback} /\ w.alive /\ w.reach[Fallback])
           => /\ (r.w.sw.res # "none") = (w.reach[Tb] /\ elapsed)
              /\ r.w.sw.res # "none" => (r.w.sw.from = Fallback /\ r.w.sw.to = Tb)
              /\ r.w.sw.res = "Success"
                    => (r.w.rt.active_backend = Tb /\ ~r.w.rt.tb_recovery_pending)

\* every driver call of the cycle succeeds
AllDriverOk(inp) == inp.um = "ok" /\ \A b \in Backends : inp.mnt[b] = "ok"

\* C16 (stale mount handling): an automatic cycle that finds the mount of
\* the active backend mounted but not alive, the driver's calls succeeding,
\* unmounts the mount point; then, if that backend is reachable, the cycle
\* ends with it mounted and alive again, and otherwise with active_backend
\* cleared; after the cycle the stable symlink does not point at a mount
\* that is not alive.
C16_StaleMount ==
    \A s \in Shares, inp \in Inputs :
        LET w == Start(world[s])
            active == w.rt.active_backend
            r == reconcile_share(w, cfg, TRUE, TRUE, clock, inp)
        IN (/\ active # NoBackend
            /\ w.mounted = {active} /\ ~w.alive
            /\ AllDriverOk(inp))
           => /\ Called(r.w, "unmount") \/ Called(r.w, "unmount_graceful")
              /\ IF w.reach[active]
                 THEN active \in r.w.mounted /\ r.w.alive
                 ELSE r.w.rt.active_backend = NoBackend
              /\ ~(r.w.link = "to_mount" /\ r.w.mounted # {} /\ ~r.w.alive)

\* C17 (transient probe failure): an automatic cycle that finds both hosts
\* unreachable and an active backend with a live mount issues no unmount
\* and no mount, runs no switch, and leaves the mount and active_backend as
\* they were.
C17_TransientProbeFailure ==
    \A s \in Shares, inp \in Inputs :
        LET w == Start(world[s])
            r == reconcile_share(w, cfg, TRUE, TRUE, clock, inp)
        IN (/\ \A b \in Backends : ~w.reach[b]
            /\ w.rt.active_backend # NoBackend
            /\ w.mounted # {} /\ w.alive)
           => /\ DriverCalls(r.w) = {}
              /\ r.w.sw = NoSwitch
              /\ r.w.mounted = w.mounted
              /\ r.w.rt.active_backend = w.rt.active_backend
              /\ r.status.active_backend = w.rt.active_backend

\* C17 witness: a reconcile cycle has run with both hosts unreachable on a
\* share with an active backend and a live mount, and has issued no call.
C17_StayedOnActive ==
    /\ op = "reconcile"
    /\ \E s \in Shares :
          /\ \A b \in Backends : ~world[s].reach[b]
          /\ world[s].rt.active_backend # NoBackend
          /\ world[s].mounted = {world[s].rt.active_backend} /\ world[s].alive
          /\ DriverCalls(world[s]) = {}
          /\ world[s].sw = NoSwitch

\* C18 (switch commit): whenever switch_backend_single_mount gets as far as
\* mounting the target and that mount succeeds, it returns Success with the
\* target mounted, active_backend = to, last_switch_at = now,
\* tb_recovery_pending = false and last_error = None -- also when the stable
\* path holds a file or directory, so that the publish fails and the node
\* stays; and after every command whose switch ended Success the persisted
\* state carries that commit.
C18_SwitchCommit ==
    /\ \A s \in Shares, from \in Backends, force \in BOOLEAN, inp \in OnceInputs :
          LET w == Start(world[s])
              to == Other(from)
              r == switch_backend_single_mount(w, from, to, force, clock, inp)
          IN (r.res \notin {"BusyOpenFiles", "UnmountFailed"} /\ w.reach[to] /\ inp.mnt[to] = "ok")
             => /\ r.res = "Success"
                /\ to \in r.w.mounted
                /\ r.w.rt.active_backend = to
                /\ r.w.rt.last_switch_at = clock
                /\ ~r.w.rt.tb_recovery_pending
                /\ r.w.rt.last_error = NoError
                /\ w.link \in NonLinks => r.w.link = w.link
    /\ \A s \in Shares :
          world[s].sw.res = "Success"
          => /\ world[s].sw.to \in world[s].mounted
             /\ world[s].rt.active_backend = world[s].sw.to
             /\ world[s].rt.last_switch_at = clock
             /\ ~world[s].rt.tb_recovery_pending
             /\ world[s].rt.last_error = NoError

\* C18 witness: a manual switch has ended Success and committed although the
\* stable path holds a directory, which the publish left in place.
C18_CommittedWithoutSymlink ==
    /\ op = "switch"
    /\ \E s \in Shares :
          /\ world[s].sw.res = "Success"
          /\ world[s].link = "dir"
          /\ Called(world[s], "publish")
          /\ world[s].rt.active_backend = world[s].sw.to
          /\ world[s].mounted = {world[s].sw.to}

\* the number of mount calls for backend b among the calls of world w
MountCalls(w, b) == Cardinality({i \in 1..Len(w.calls) : w.calls[i] = "mount_" \o b})

\* C19 (retry once before rollback): when switch_backend_single_mount, run
\* from the mounted active backend, gets as far as mounting the target and
\* the first mount of the target fails,
\* the target is mounted a second time before any rollback; a rollback
\* mount of the previous backend is issued only after two mounts of the
\* target, and a second attempt that succeeds ends the switch with Success.
C19_RetryOnce ==
    \A s \in Shares, from \in Backends, force \in BOOLEAN, inp \in Inputs :
        LET w == Start(world[s])
            to == Other(from)
            r == switch_backend_single_mount(w, from, to, force, clock, inp)
        IN (/\ w.rt.active_backend = from /\ w.mounted = {from}
            /\ r.res \notin {"BusyOpenFiles", "UnmountFailed"}
            /\ ~(w.reach[to] /\ inp.mnt[to] = "ok"))
           => /\ MountCalls(r.w, to) >= 2
              /\ MountCalls(r.w, from) > 0 => MountCalls(r.w, to) = 2
              /\ (w.reach[to] /\ inp.mnt[to] = "second")
                    => (r.res = "Success" /\ r.w.rt.active_backend = to)

\* the switch command's outcomes without a call of the switch protocol
NotSwitched == {"no_active_backend", "already_on_target"}

\* C20 (switch command preconditions): `switch --share X --to B` calls
\* switch_backend_single_mount only if the share's persisted active_backend
\* is defined and is not B; when it is undefined or is B the command exits
\* non-zero, issues no unmount and no mount, and leaves the mount and the
\* persisted runtime state as they were.
C20_SwitchPreconditions ==
    [][\A s \in Shares :
         op' \in {"switch", "switch_force"}
         => /\ world'[s].sw.res \notin NotSwitched \cup {"none"}
                  => /\ world[s].rt.active_backend # NoBackend
                     /\ world[s].rt.active_backend # world'[s].sw.to
                     /\ world[s].rt.active_backend = world'[s].sw.from
            /\ world'[s].sw.res \in NotSwitched
                  => /\ cmd_switch_exit(world'[s]) # 0
                     /\ world'[s].calls = <<>>
                     /\ world'[s].mounted = world[s].mounted
                     /\ world'[s].rt = world[s].rt]_vars

\* C21 (stable symlink preserved across unmounts): `unmount --all` leaves
\* the node at every share's stable path as it was, and no command or cycle
\* of the engine (none of them being `favorites remove --cleanup`) takes an
\* existing stable symlink away.
C21_SymlinkPreserved ==
    [][\A s \in Shares :
         /\ op' \in {"unmount", "unmount_force"} => world'[s].link = world[s].link
         /\ (op' # "env" /\ is_symlink(world[s])) => is_symlink(world'[s])]_vars

\* C22 (`unmount --all` busy handling): without force a share whose mount
\* has open handles is skipped -- it stays mounted and keeps its
\* active_backend; active_backend is cleared when the share's mount was
\* unmounted; with force open handles do not keep the unmount from being
\* issued.
C22_UnmountBusy ==
    [][\A s \in Shares :
         /\ (op' = "unmount" /\ has_open_handles(world[s]))
               => /\ world'[s].mounted = world[s].mounted
                  /\ world'[s].rt.active_backend = world[s].rt.active_backend
         /\ (op' \in {"unmount", "unmount_force"} /\ is_mounted(world[s]) /\ ~is_mounted(world'[s]))
               => world'[s].rt.active_backend = NoBackend
         /\ (op' = "unmount_force" /\ has_open_handles(world[s]))
               => DriverCalls(world'[s]) # {}]_vars

\* the calls of world w that unmount
UnmountCalls(w) == {i \in 1..Len(w.calls) : w.calls[i] \in {"unmount", "unmount_graceful"}}

\* C23 (`mount --all` leaves already-mounted shares alone): for a share
\* whose active backend is mounted, `mount --all` runs no switch, issues no
\* unmount and leaves the persisted active_backend as it was -- whether or
\* not the active backend is ready, the other one reachable or a failback
\* due.
C23_MountLeavesMounted ==
    [][\A s \in Shares :
         (/\ op' = "mount"
          /\ world[s].rt.active_backend # NoBackend
          /\ world[s].mounted = {world[s].rt.active_backend})
         => /\ world'[s].sw = NoSwitch
            /\ UnmountCalls(world'[s]) = {}
            /\ world'[s].rt.active_backend = world[s].rt.active_backend]_vars

\* C24 (`mount --all` initial mount): for a share with no active backend and
\* nothing mounted, of which at least one host is reachable, `mount --all`
\* with the driver's calls succeeding ends with exactly one backend mounted
\* -- Tb if reachable, else Fallback -- and with that backend as the
\* persisted active_backend.
C24_MountAllInitial ==
    \A s \in Shares, inp \in OnceInputs :
        LET w == Start(world[s])
            chosen == IF w.reach[Tb] THEN Tb ELSE Fallback
            r == reconcile_share(w, cfg, TRUE, FALSE, clock, inp)
        IN (/\ current_active_backend(w) = NoBackend
            /\ w.mounted = {}
            /\ \E b \in Backends : w.reach[b]
            /\ AllDriverOk(inp))
           => /\ r.w.mounted = {chosen}
              /\ r.w.rt.active_backend = chosen


\* no two entries of seq have names equal ignoring ASCII case
UniqueNames(seq) == \A i, j \in 1..Len(seq) : eq_ignore_ascii_case(seq[i].name, seq[j].name) => i = j

\* C25: name uniqueness.  When the config file was valid at the start, then
\* after any sequence of favorites add / remove and alias add / remove no two
\* shares and no two aliases of the store have names equal ignoring ASCII
\* case; and a store that holds such a duplicate does not pass the validate
\* of load.
C25_NameUniqueness ==
    /\ cf.valid0 => (UniqueNames(cf.shares) /\ UniqueNames(cf.aliases))
    /\ ~(UniqueNames(cf.shares) /\ UniqueNames(cf.aliases)) => validate(cf) # "ok"

\* an add of a share was saved into a valid store that now holds two shares
C25_AddedSecondShare ==
    /\ cf.valid0
    /\ cf.cmd = "favorites_add"
    /\ cf.res = "ok"
    /\ Len(cf.shares) = MaxShares
    /\ validate(cf) = "ok"


\* the share has an empty or whitespace-only name, primary host or fallback host
BlankField(share) == trim(share.name) = "" \/ trim(share.thunderbolt_host) = "" \/ trim(share.fallback_host) = ""

C27_AliasRemoveUnlinks ==
    \A alias \in AliasConfigs, save_ok \in BOOLEAN :
        (validate(cf) = "ok" /\ position(cf.aliases, alias.name) # 0)
            => cf.aliases[position(cf.aliases, alias.name)].name \notin alias_remove(cf, alias.name, save_ok).links


\* C28: crash-atomic persistence.  When the process dies at any step of a
\* save of the runtime-state file or of the config file, the file on disk
\* holds the complete content it had before the save or the complete new
\* content, never an empty or a partly written text.
C28_CrashAtomic == sv.pc = "crashed" => sv.target \in {sv.target0, "new"}


\* C29: event coalescing.  The network-change events that arrive while a
\* cycle runs start at most one follow-up cycle once no more events arrive:
\* the loop leaves the debounce for the follow-up cycle only with the channel
\* drained, and since the last event arrived at most one cycle has been
\* started by an event, so the cycles are never one per event.
C29_EventCoalescing ==
    [][/\ (mon.pc = "debounce" /\ mon'.pc = "reconcile") => mon.queue = 0
       /\ mon'.evcycles <= 1]_vars

\* two or more events arrived during one cycle and one follow-up cycle has
\* started for them, with the channel empty
C29_BurstCoalesced ==
    /\ mon.pc = "reconcile"
    /\ mon.trigger = "event"
    /\ mon.burst >= 2
    /\ mon.queue = 0
    /\ mon.evcycles = 1

\* C30: a save failure of the running monitor is not fatal.  When
\* save_runtime_state fails after a cycle of the monitor, the loop goes on
\* to the wait for its next cycle and does not terminate.
C30_SaveFailureNonFatal == mon.saved = "failed" => mon.pc \in {"wait", "debounce", "reconcile", "save"}


\* C31: last good config.  When the reload of the config at the start of a
\* cycle of the monitor fails, the cycle uses the config of the latest
\* earlier load that succeeded (the one before the loop when none has),
\* not an older one.
C31_LastGoodConfig == (mon.pc = "save" /\ mon.loaded = "failed") => mon.used = mon.last_good


\* C32 (the idle check of the auto-failback is configurable): with
\* auto_failback = true, an automatic cycle that invokes the switch
\* Fallback -> Tb with files open on the Fallback mount is denied as busy when
\* lsof_recheck (require_idle_on_switch) is true, and with lsof_recheck =
\* false is not denied: it goes on to the unmount.
C32_IdleCheckConfigurable ==
    \A s \in Shares, inp \in Inputs, recheck \in BOOLEAN :
        LET w == [Start(world[s]) EXCEPT !.open = TRUE]
            c == [auto_failback |-> TRUE, auto_failback_stable_secs |-> cfg.auto_failback_stable_secs, lsof_recheck |-> recheck]
            r == reconcile_share(w, c, TRUE, TRUE, clock, inp)
        IN (/\ w.mounted = {Fallback}
            /\ w.rt.active_backend = Fallback
            /\ r.w.sw.res # "none"
            /\ r.w.sw.from = Fallback /\ r.w.sw.to = Tb)
           => IF recheck THEN r.w.sw.res = "BusyOpenFiles"
              ELSE r.w.sw.res # "BusyOpenFiles" /\ DriverCalls(r.w) # {}


\* C33 (backend attribution): a cycle attributes a live mount to the
\* active_backend remembered in the runtime state.  Once a switch to
\* Fallback has committed (Fallback remembered, mounted and alive, the
\* stable symlink published), an automatic cycle treats Fallback as the
\* active backend: a switch it runs starts from Fallback, and when it runs
\* none the status it publishes and the state it leaves name Fallback.
C33_BackendAttribution ==
    \A s \in Shares, inp \in Inputs :
        LET w == Start(world[s])
            r == reconcile_share(w, cfg, TRUE, TRUE, clock, inp)
        IN (/\ w.rt.active_backend = Fallback
            /\ w.mounted = {Fallback} /\ w.alive
            /\ w.link = backend_mount_path(Fallback))
           => /\ r.w.sw.res # "none" => r.w.sw.from = Fallback
              /\ r.w.sw.res = "none"
                    => (r.status.active_backend = Fallback /\ r.w.rt.active_backend = Fallback)


\* the number of mount calls among the calls of world w
AllMountCalls(w) == MountCalls(w, Tb) + MountCalls(w, Fallback)

\* C34 (no retry within a cycle): an automatic cycle for a share with no
\* active backend issues at most one mount; when that mount fails the cycle
\* records last_error, leaves active_backend empty and mounts nothing more.
C34_NoRetryInCycle ==
    \A s \in Shares, inp \in Inputs :
        LET w == Start(world[s])
            r == reconcile_share(w, cfg, TRUE, TRUE, clock, inp)
        IN (w.rt.active_backend = NoBackend /\ current_active_backend(w) = NoBackend /\ w.mounted = {})
           => /\ AllMountCalls(r.w) <= 1
              /\ (AllMountCalls(r.w) >= 1 /\ r.w.mounted = {})
                    => (r.w.rt.last_error # NoError /\ r.w.rt.active_backend = NoBackend)


\* C35 (the network-triggered reconcile is live): once the loop has received
\* a network-change event and is in its debounce, a reconcile cycle
\* eventually starts, even when further events keep arriving: the drain of
\* the channel does not hold the loop for ever.
C35_NetworkReconcileLive == (mon.pc = "debounce") ~> (mon.pc = "reconcile")


\* C36 (the pending flag implies Fallback): after every completed cycle and
\* every completed command, in the runtime state of every share
\* tb_recovery_pending = true implies active_backend = Fallback; the flag is
\* not set while the share is on Tb or has no active backend.
C36_PendingImpliesFallback ==
    \A s \in Shares : world[s].rt.tb_recovery_pending => world[s].rt.active_backend = Fallback


\* C37 (the switch agrees with the desired backend): in every automatic
\* cycle that invokes the switch protocol from the active backend to backend
\* B, the desired_backend the cycle computes and publishes for the share is
\* B; the cycle does not switch away from the backend it reports as desired.
C37_SwitchAgreesWithDesired ==
    \A s \in Shares, inp \in Inputs :
        LET r == reconcile_share(Start(world[s]), cfg, TRUE, TRUE, clock, inp)
        IN r.w.sw.res # "none" => r.status.desired_backend = r.w.sw.to


C39_StatusNonActing ==
    [][op' = "status"
          => \A s \in Shares :
                /\ AllMountCalls(world'[s]) = 0
                /\ world'[s].sw = NoSwitch
                /\ ~Called(world'[s], "publish")
                /\ world'[s].link = world[s].link]_vars

\* a status pass has run for a share with nothing mounted, no stable
\* symlink and a host that answers: a reconcile would have mounted it
C39_StatusLeftUnmounted ==
    \E s \in Shares :
        /\ op = "status"
        /\ world[s].mounted = {}
        /\ world[s].reach[Tb]
        /\ ~is_symlink(world[s])


\* the workers of tray t that are in auto_mount_cycle or have not yet
\* cleared the flag
Running(t) == {i \in 1..Len(t.workers) : t.workers[i].pc \in {"cycle", "store"}}

\* C40 (single auto-mount worker): however the trigger_mount calls of the
\* tray loop interleave with the workers, at most one worker is executing
\* auto_mount_cycle at a time; trigger_mount returns true exactly when it
\* started a worker and false exactly when one was in progress; and every
\* worker clears the in-progress flag once and sends one completion
\* message, no more.
C40_SingleWorker ==
    [][/\ Cardinality(Running(tray')) <= 1
       /\ tray'.calls # tray.calls
             => /\ (tray'.ret = "true") = (Len(tray'.workers) = Len(tray.workers) + 1)
                /\ (tray'.ret = "false") = (tray'.workers = tray.workers)
                /\ (tray'.ret = "false") = (Running(tray) # {})
       /\ \A i \in 1..Len(tray'.workers) :
             /\ tray'.workers[i].clears <= 1
             /\ tray'.workers[i].sends <= 1
             /\ tray'.workers[i].pc = "done"
                   => (tray'.workers[i].clears = 1 /\ tray'.workers[i].sends = 1)]_vars

\* a trigger_mount has returned false while a worker runs its cycle, after
\* an earlier worker has finished
C40_RefusedWhileRunning ==
    /\ tray.ret = "false"
    /\ \E i \in 1..Len(tray.workers) : tray.workers[i].pc = "cycle"
    /\ \E j \in 1..Len(tray.workers) : tray.workers[j].pc = "done"

====
